---------------------------- MODULE Spec2Model ----------------------------
(***************************************************************************)
(* A model of the two batch utilities of CellCarto-3DEEP:                  *)
(*                                                                         *)
(*   Pipeline A, convert_to_parquet.py: load the .tsv.gz sources, narrow   *)
(*   the column types, delete the old .parquet files, shuffle the rows     *)
(*   with a seeded generator and write them as num_shards Parquet shards.  *)
(*                                                                         *)
(*   Pipeline B, split_data.py: validate the key=value arguments, read and *)
(*   decompress the input, split its lines into n_files header-preserving  *)
(*   parts and write each part.                                            *)
(*                                                                         *)
(* SpecA runs Pipeline A (repeatedly, on the same directory), SpecB runs   *)
(* Pipeline B once.                                                        *)
(***************************************************************************)
EXTENDS Integers, Sequences, FiniteSets, TLC

VARIABLES
    \* ---- Pipeline A ----
    pc,           \* position of main() of convert_to_parquet.py
    srcFiles,     \* the *.tsv.gz files of DATA_DIR in sorted name order; a file
                  \* is the sequence of its rows' TimeRank values
    num_shards,   \* the num_shards argument of shuffle_and_shard
    rng,          \* state of numpy's global generator
    df,           \* the DataFrame: a sequence of rows [id, TimeRank]
    df_shuffled,  \* the DataFrame after the permutation
    shard_idx,    \* loop variable of shuffle_and_shard
    shard_files,  \* the list shuffle_and_shard returns
    parquet,      \* the *.parquet files of DATA_DIR: name -> rows
    preexisting,  \* history: the *.parquet names present when the run started
    run,          \* history: number of the current run
    prevAssign,   \* history: the row-to-shard assignment of the previous run
    \* ---- Pipeline B ----
    pcB,          \* position of main() of split_data.py
    argv,         \* sys.argv[1:]
    args,         \* the dict parse_arguments returns
    n_files,      \* n_files after int()
    rawText,      \* history: the decompressed, decoded text of the input
    lines,        \* the list read_file_lines returns
    parts,        \* the list of parts built by the split loop
    start_idx,    \* loop variable of the split loop
    outDirs,      \* directories created by this run
    outFiles,     \* files written by this run: name -> text
    printed,      \* what the run printed (errors, usage, warnings, Done!)
    exitCode      \* -1 while running, then the process's exit code

varsA == <<pc, srcFiles, num_shards, rng, df, df_shuffled, shard_idx,
           shard_files, parquet, preexisting, run, prevAssign>>
varsB == <<pcB, argv, args, n_files, rawText, lines, parts, start_idx,
           outDirs, outFiles, printed, exitCode>>
vars == <<varsA, varsB>>

----------------------------------------------------------------------------
(* Bounds of the model *)

MaxFiles == 2      \* at most this many .tsv.gz sources
MaxRows == 3       \* at most this many rows over all sources
MaxShards == 3     \* num_shards ranges over 1..MaxShards
MaxRuns == 2       \* runs of Pipeline A on the same directory
MaxLen == 5        \* characters of the input text of Pipeline B
MaxParts == 3      \* n_files ranges over the numerals up to MaxParts

\* values a TimeRank cell of a source can hold: the largest int16 and the
\* first value past it
TimeRankValues == {32767, 32768}

----------------------------------------------------------------------------
(* Configuration of convert_to_parquet.py *)

OUTPUT_PREFIX == "hairfollicle"
RANDOM_SEED == 42

----------------------------------------------------------------------------
(* Generic helpers *)

Range(s) == {s[i] : i \in DOMAIN s}

Min(a, b) == IF a < b THEN a ELSE b

RECURSIVE Flatten(_)
Flatten(ss) == IF ss = <<>> THEN <<>> ELSE Head(ss) \o Flatten(Tail(ss))

RECURSIVE SumLen(_)
SumLen(ss) == IF ss = <<>> THEN 0 ELSE Len(Head(ss)) + SumLen(Tail(ss))

SeqsUpTo(S, n) == UNION {[1..k -> S] : k \in 0..n}

----------------------------------------------------------------------------
(* Pipeline A: convert_to_parquet.py *)

\* pd.concat(dfs, ignore_index=True): the rows of all files in file order,
\* row i carrying index i
Combine(files) ==
    LET vals == Flatten(files)
    IN  [i \in 1..Len(vals) |-> [id |-> i - 1, TimeRank |-> vals[i]]]

\* numpy's astype('int16') of a 64-bit integer: the low 16 bits, two's
\* complement
AsInt16(v) == ((v + 32768) % 65536) - 32768

\* the generator state space and its step: a linear congruential stand-in of
\* the Mersenne Twister behind np.random
RngStates == 0..7

RngNext(s) == (5 * s + 3) % 8

\* variant: the generator is left in the state it had
SeedStateKeep(seed, old) == old

\* np.random.seed(seed): the state depends on the seed alone
SeedState(seed, old) == seed % 8

\* variant: arr[i] = arr[j] without the exchange
SwapLossy(a, i, j) == [a EXCEPT ![i] = a[j]]

\* arr[i], arr[j] = arr[j], arr[i]
Swap(a, i, j) == [a EXCEPT ![i] = a[j], ![j] = a[i]]

\* np.random.permutation(n): arange(n) shuffled by Fisher-Yates, i from n-1
\* down to 1, j drawn from [0, i]; positions are 1-based here, values 0-based
RECURSIVE FisherYates(_, _, _)
FisherYates(a, i, s) ==
    IF i < 2 THEN [arr |-> a, state |-> s]
    ELSE LET s2 == RngNext(s)
             j  == (s2 % i) + 1
         IN  FisherYates(Swap(a, i, j), i - 1, s2)

Permutation(n, s) == FisherYates([i \in 1..n |-> i - 1], n, s)

\* df.iloc[start:end]: rows start..end-1 (0-based), clamped to the frame
Iloc(d, start, end) ==
    LET e == Min(end, Len(d))
    IN  IF start >= e THEN <<>> ELSE [i \in 1..(e - start) |-> d[start + i]]

\* variant: the quotient rounded up
RowsPerShardCeil(total_rows, n) == (total_rows + n - 1) \div n

RowsPerShard(total_rows, n) == total_rows \div n

StartRow(idx, rows_per_shard) == idx * rows_per_shard

\* variant: the last shard cut like the others
EndRowEven(idx, n, total_rows, rows_per_shard) == (idx + 1) * rows_per_shard

EndRow(idx, n, total_rows, rows_per_shard) ==
    IF idx = n - 1 THEN total_rows ELSE (idx + 1) * rows_per_shard

\* f"{k:02d}": the decimal digits of k, zero-padded to two
RECURSIVE Digits(_)
Digits(k) == IF k < 10 THEN <<k>> ELSE Digits(k \div 10) \o <<k % 10>>

Pad2(k) == IF k < 10 THEN <<0, k>> ELSE Digits(k)

FileName(prefix, tag, num, ext) ==
    [prefix |-> prefix, tag |-> tag, num |-> num, ext |-> ext]

\* f"{prefix}.shard{shard_idx + 1:02d}.parquet"
ShardName(prefix, idx) == FileName(prefix, "shard", Pad2(idx + 1), "parquet")

\* variant: only the files named after OUTPUT_PREFIX
OldFilesOwnPrefix(fs) == {f \in DOMAIN fs : f.prefix = OUTPUT_PREFIX}

\* DATA_DIR.glob("*.parquet")
OldFiles(fs) == {f \in DOMAIN fs : f.ext = "parquet"}

\* .parquet files another tool or an earlier configuration may have left
StaleNames == {FileName("other", "", <<>>, "parquet"),
               ShardName(OUTPUT_PREFIX, MaxShards)}

SourceSets ==
    {fs \in UNION {[1..f -> SeqsUpTo(TimeRankValues, MaxRows)] : f \in 0..MaxFiles} :
        SumLen(fs) <= MaxRows}

AIdle ==
    /\ pc = "idle"
    /\ srcFiles = <<>>
    /\ num_shards = 1
    /\ rng = 0
    /\ df = <<>>
    /\ df_shuffled = <<>>
    /\ shard_idx = 0
    /\ shard_files = <<>>
    /\ parquet = <<>>
    /\ preexisting = {}
    /\ run = 1
    /\ prevAssign = <<>>

AStart ==
    /\ pc = "load"
    /\ srcFiles \in SourceSets
    /\ num_shards \in 1..MaxShards
    /\ rng \in RngStates
    /\ df = <<>>
    /\ df_shuffled = <<>>
    /\ shard_idx = 0
    /\ shard_files = <<>>
    /\ \E old \in SUBSET StaleNames :
          /\ parquet = [f \in old |-> <<>>]
          /\ preexisting = old
    /\ run = 1
    /\ prevAssign = <<>>

\* load_and_combine_files
LoadAndCombineFiles ==
    /\ pc = "load"
    /\ IF srcFiles = <<>>
       THEN /\ pc' = "failed"          \* raise FileNotFoundError
            /\ UNCHANGED df
       ELSE /\ pc' = "optimize"
            /\ df' = Combine(srcFiles)
    /\ UNCHANGED <<srcFiles, num_shards, rng, df_shuffled, shard_idx,
                   shard_files, parquet, preexisting, run, prevAssign>>
    /\ UNCHANGED varsB

\* optimize_dtypes; of the narrowed columns the model carries TimeRank
OptimizeDtypes ==
    /\ pc = "optimize"
    /\ df' = [i \in DOMAIN df |-> [df[i] EXCEPT !.TimeRank = AsInt16(@)]]
    /\ pc' = "remove_old"
    /\ UNCHANGED <<srcFiles, num_shards, rng, df_shuffled, shard_idx,
                   shard_files, parquet, preexisting, run, prevAssign>>
    /\ UNCHANGED varsB

\* main: remove old parquet files
RemoveOldFiles ==
    /\ pc = "remove_old"
    /\ parquet' = [f \in DOMAIN parquet \ OldFiles(parquet) |-> parquet[f]]
    /\ pc' = "shuffle"
    /\ UNCHANGED <<srcFiles, num_shards, rng, df, df_shuffled, shard_idx,
                   shard_files, preexisting, run, prevAssign>>
    /\ UNCHANGED varsB

\* shuffle_and_shard up to its loop: seed, permute, reorder
Shuffle ==
    /\ pc = "shuffle"
    /\ LET p == Permutation(Len(df), SeedState(RANDOM_SEED, rng))
       IN  /\ rng' = p.state
           /\ df_shuffled' = [i \in 1..Len(df) |-> df[p.arr[i] + 1]]
    /\ shard_idx' = 0
    /\ shard_files' = <<>>
    /\ pc' = "shard"
    /\ UNCHANGED <<srcFiles, num_shards, df, parquet, preexisting, run, prevAssign>>
    /\ UNCHANGED varsB

\* one iteration of the loop of shuffle_and_shard, or its exit
WriteShard ==
    /\ pc = "shard"
    /\ IF shard_idx < num_shards
       THEN LET total_rows == Len(df_shuffled)
                rows_per_shard == RowsPerShard(total_rows, num_shards)
                start_row == StartRow(shard_idx, rows_per_shard)
                end_row == EndRow(shard_idx, num_shards, total_rows, rows_per_shard)
                shard_df == Iloc(df_shuffled, start_row, end_row)
                shard_path == ShardName(OUTPUT_PREFIX, shard_idx)
            IN  /\ parquet' = (shard_path :> shard_df) @@ parquet
                /\ shard_files' = Append(shard_files, shard_path)
                /\ shard_idx' = shard_idx + 1
                /\ pc' = pc
       ELSE /\ pc' = "summary"
            /\ UNCHANGED <<parquet, shard_files, shard_idx>>
    /\ UNCHANGED <<srcFiles, num_shards, rng, df, df_shuffled, preexisting,
                   run, prevAssign>>
    /\ UNCHANGED varsB

\* main: the summary, which reads the sizes of the shards written
Summary ==
    /\ pc = "summary"
    /\ shard_files # <<>>
    /\ Range(shard_files) \subseteq DOMAIN parquet
    /\ pc' = "done"
    /\ UNCHANGED <<srcFiles, num_shards, rng, df, df_shuffled, shard_idx,
                   shard_files, parquet, preexisting, run, prevAssign>>
    /\ UNCHANGED varsB

\* the ids of the rows of each shard file, by shard number
Assignment ==
    [k \in 1..num_shards |->
        LET f == ShardName(OUTPUT_PREFIX, k - 1)
        IN  IF f \in DOMAIN parquet
            THEN [i \in DOMAIN parquet[f] |-> parquet[f][i].id]
            ELSE <<>>]

\* the script is run again on the same directory: a new process, whose
\* generator starts in whatever state the import left it
RunAgain ==
    /\ pc = "done"
    /\ run < MaxRuns
    /\ run' = run + 1
    /\ prevAssign' = Assignment
    /\ preexisting' = DOMAIN parquet
    /\ rng' \in RngStates
    /\ df' = <<>>
    /\ df_shuffled' = <<>>
    /\ shard_idx' = 0
    /\ shard_files' = <<>>
    /\ pc' = "load"
    /\ UNCHANGED <<srcFiles, num_shards, parquet>>
    /\ UNCHANGED varsB

BIdle ==
    /\ pcB = "idle"
    /\ argv = <<>>
    /\ args = <<>>
    /\ n_files = 0
    /\ rawText = <<>>
    /\ lines = <<>>
    /\ parts = <<>>
    /\ start_idx = 0
    /\ outDirs = {}
    /\ outFiles = <<>>
    /\ printed = <<>>
    /\ exitCode = -1

InitA == AStart /\ BIdle

NextA ==
    \/ LoadAndCombineFiles
    \/ OptimizeDtypes
    \/ RemoveOldFiles
    \/ Shuffle
    \/ WriteShard
    \/ Summary
    \/ RunAgain

SpecA == InitA /\ [][NextA]_vars

----------------------------------------------------------------------------
(* Pipeline B: split_data.py *)

\* A string is a sequence of pieces: the characters of n_files and of the
\* text, the dot-separated segments of a file name, the directory and the
\* trailing separator of output_path.  The empty string is <<>>.
Token(eq, key, value) == [eq |-> eq, key |-> key, value |-> value]

CellsFile == <<"cells", "tsv", "gz">>
GoneFile == <<"gone", "tsv", "gz">>

\* os.path.exists
ExistingPaths == {CellsFile}

DigitChars == <<"0", "1", "2", "3", "4", "5", "6", "7", "8", "9">>

IsDigit(c) == c \in Range(DigitChars)

DigitVal(c) == CHOOSE d \in 0..9 : DigitChars[d + 1] = c

Numeral(n) == [i \in DOMAIN Digits(n) |-> DigitChars[Digits(n)[i] + 1]]

InputValues == {<<>>, CellsFile, GoneFile}
OutputValues == {<<"out">>, <<"out", "/">>}
NFilesValues ==
    {<<>>, <<"x">>, <<"0">>, <<"-", "1">>, <<"+", "2">>}
        \cup {Numeral(n) : n \in 1..MaxParts}

Optional(key, values) == {<<>>} \cup {<<Token(TRUE, key, v)>> : v \in values}

Argvs ==
    {a \o b \o c \o j :
        a \in Optional("input_file", InputValues),
        b \in Optional("output_path", OutputValues),
        c \in Optional("n_files", NFilesValues),
        j \in {<<>>, <<Token(FALSE, "verbose", <<>>)>>}}

TextChars == {"a", "\r", "\n"}

Texts == SeqsUpTo(TextChars, MaxLen)

\* parse_arguments: key=value tokens fill the dict, a later one replacing an
\* earlier one; a token without '=' is ignored
RECURSIVE ParseArgs(_, _)
ParseArgs(av, acc) ==
    IF av = <<>> THEN acc
    ELSE LET t == Head(av)
         IN  ParseArgs(Tail(av),
                       IF t.eq THEN (t.key :> t.value) @@ acc ELSE acc)

\* variant: `args.get(key) is None`
FalsyAbsentOnly(a, key) == key \notin DOMAIN a

\* `not args.get(key)`: the key is absent or its value is the empty string
Falsy(a, key) == key \notin DOMAIN a \/ a[key] = <<>>

RECURSIVE DigitsValue(_, _)
DigitsValue(s, acc) ==
    IF s = <<>> THEN acc ELSE DigitsValue(Tail(s), 10 * acc + DigitVal(Head(s)))

\* int(s): an optional sign and at least one digit, else ValueError
IntParse(s) ==
    LET signed == s # <<>> /\ Head(s) \in {"+", "-"}
        body == IF signed THEN Tail(s) ELSE s
    IN  IF body # <<>> /\ \A i \in DOMAIN body : IsDigit(body[i])
        THEN [ok |-> TRUE,
              val |-> IF signed /\ Head(s) = "-"
                      THEN 0 - DigitsValue(body, 0) ELSE DigitsValue(body, 0)]
        ELSE [ok |-> FALSE, val |-> 0]

\* output_path with the trailing separator added when it has none
OutputPath(p) ==
    IF p[Len(p)] = "/" \/ p[Len(p)] = "\\" THEN p ELSE Append(p, "/")

EndsWithGz(name) == Len(name) >= 2 /\ name[Len(name)] = "gz"

\* os.path.splitext on a name given by its dot-separated segments
SplitExtRoot(name) == IF Len(name) >= 2 THEN SubSeq(name, 1, Len(name) - 1) ELSE name
SplitExtExt(name) == IF Len(name) >= 2 THEN <<name[Len(name)]>> ELSE <<>>

\* get_base_filename
GetBaseFilename(name) ==
    SplitExtRoot(IF EndsWithGz(name) THEN SubSeq(name, 1, Len(name) - 1) ELSE name)

\* get_file_extension
GetFileExtension(name) ==
    IF EndsWithGz(name)
    THEN SplitExtExt(SubSeq(name, 1, Len(name) - 1)) \o <<"gz">>
    ELSE SplitExtExt(name)

\* f"{output_path}{base_filename}.part{part_num}{extension}"
PartName(out, input, i) ==
    [dir |-> OutputPath(out), base |-> GetBaseFilename(input),
     num |-> Pad2(i), ext |-> GetFileExtension(input)]

\* str.splitlines(keepends=True) over the characters of TextChars: a line ends
\* after "\n", after "\r\n" and after a lone "\r"
RECURSIVE SplitFrom(_, _, _)
SplitFrom(t, i, cur) ==
    IF i > Len(t) THEN (IF cur = <<>> THEN <<>> ELSE <<cur>>)
    ELSE IF t[i] = "\n" THEN <<Append(cur, "\n")>> \o SplitFrom(t, i + 1, <<>>)
    ELSE IF t[i] = "\r" THEN
        IF i < Len(t) /\ t[i + 1] = "\n"
        THEN <<cur \o <<"\r", "\n">>>> \o SplitFrom(t, i + 2, <<>>)
        ELSE <<Append(cur, "\r")>> \o SplitFrom(t, i + 1, <<>>)
    ELSE SplitFrom(t, i + 1, Append(cur, t[i]))

SplitLines(t) == SplitFrom(t, 1, <<>>)

EndsWithNewline(l) == l # <<>> /\ l[Len(l)] = "\n"

\* read_file_lines after decoding: split, then give the last line a newline
\* when it has none
ReadFileLines(t) ==
    LET ls == SplitLines(t)
    IN  IF ls # <<>> /\ ~EndsWithNewline(ls[Len(ls)])
        THEN [ls EXCEPT ![Len(ls)] = Append(@, "\n")]
        ELSE ls

\* variant: the end index included
ListSliceInclusive(l, start, end) ==
    LET e == Min(end + 1, Len(l))
    IN  IF start >= e THEN <<>> ELSE [i \in 1..(e - start) |-> l[start + i]]

\* l[start:end] of a list: items start..end-1 (0-based), clamped
ListSlice(l, start, end) ==
    LET e == Min(end, Len(l))
    IN  IF start >= e THEN <<>> ELSE [i \in 1..(e - start) |-> l[start + i]]

\* variant: the extra lines given to the last parts
PartSizeLastFirst(i, lines_per_part, remainder, n) ==
    lines_per_part + (IF i >= n - remainder THEN 1 ELSE 0)

\* lines_per_part + (1 if i < remainder else 0), i counted from 0
PartSize(i, lines_per_part, remainder, n) ==
    lines_per_part + (IF i < remainder THEN 1 ELSE 0)

Usage == "Usage: python split_data.py input_file=path/to/file output_path=path/ n_files=10"

BStart ==
    /\ pcB = "parse"
    /\ argv \in Argvs
    /\ args = <<>>
    /\ n_files = 0
    /\ rawText = <<>>
    /\ lines = <<>>
    /\ parts = <<>>
    /\ start_idx = 0
    /\ outDirs = {}
    /\ outFiles = <<>>
    /\ printed = <<>>
    /\ exitCode = -1

\* sys.exit(1) after printing msgs
Exit1(msgs) ==
    /\ printed' = printed \o msgs
    /\ exitCode' = 1
    /\ pcB' = "exited"

\* parse_arguments
ParseArguments ==
    /\ pcB = "parse"
    /\ args' = ParseArgs(argv, <<>>)
    /\ printed' = printed \o
          SelectSeq([i \in DOMAIN argv |->
                        IF argv[i].eq THEN "" ELSE "Warning: Ignoring argument"],
                    LAMBDA m : m # "")
    /\ pcB' = "required"
    /\ UNCHANGED <<argv, n_files, rawText, lines, parts, start_idx, outDirs,
                   outFiles, exitCode>>
    /\ UNCHANGED varsA

\* main: the three required arguments
CheckRequired ==
    /\ pcB = "required"
    /\ IF Falsy(args, "input_file")
       THEN Exit1(<<"Error: input_file is required", Usage>>)
       ELSE IF Falsy(args, "output_path")
       THEN Exit1(<<"Error: output_path is required", Usage>>)
       ELSE IF Falsy(args, "n_files")
       THEN Exit1(<<"Error: n_files is required", Usage>>)
       ELSE /\ pcB' = "convert"
            /\ UNCHANGED <<printed, exitCode>>
    /\ UNCHANGED <<argv, args, n_files, rawText, lines, parts, start_idx,
                   outDirs, outFiles>>
    /\ UNCHANGED varsA

\* main: n_files = int(n_files), at least 1
ConvertNFiles ==
    /\ pcB = "convert"
    /\ LET r == IntParse(args["n_files"])
       IN  IF r.ok /\ r.val >= 1
           THEN /\ n_files' = r.val
                /\ pcB' = "exists"
                /\ UNCHANGED <<printed, exitCode>>
           ELSE /\ Exit1(<<"Error: n_files must be a positive integer">>)
                /\ UNCHANGED n_files
    /\ UNCHANGED <<argv, args, rawText, lines, parts, start_idx, outDirs, outFiles>>
    /\ UNCHANGED varsA

\* variant: the output directory made before the input is looked for
CheckExistsEarlyMkdir ==
    /\ pcB = "exists"
    /\ outDirs' = outDirs \cup {OutputPath(args["output_path"])}
    /\ IF args["input_file"] \notin ExistingPaths
       THEN Exit1(<<"Error: Input file does not exist">>)
       ELSE /\ pcB' = "read"
            /\ UNCHANGED <<printed, exitCode>>
    /\ UNCHANGED <<argv, args, n_files, rawText, lines, parts, start_idx, outFiles>>
    /\ UNCHANGED varsA

\* main: the input file must exist
CheckExists ==
    /\ pcB = "exists"
    /\ IF args["input_file"] \notin ExistingPaths
       THEN Exit1(<<"Error: Input file does not exist">>)
       ELSE /\ pcB' = "read"
            /\ UNCHANGED <<printed, exitCode>>
    /\ UNCHANGED <<argv, args, n_files, rawText, lines, parts, start_idx,
                   outDirs, outFiles>>
    /\ UNCHANGED varsA

\* main: lines = read_file_lines(input_file).  The file holds some text, or
\* bytes neither decompression path accepts, which ends the run with an
\* uncaught exception (exit code 1, a traceback)
ReadInput ==
    /\ pcB = "read"
    /\ \/ \E t \in Texts :
             /\ rawText' = t
             /\ lines' = ReadFileLines(t)
             /\ pcB' = "empty"
             /\ UNCHANGED <<printed, exitCode>>
       \/ /\ printed' = Append(printed, "Traceback")
          /\ exitCode' = 1
          /\ pcB' = "crashed"
          /\ UNCHANGED <<rawText, lines>>
    /\ UNCHANGED <<argv, args, n_files, parts, start_idx, outDirs, outFiles>>
    /\ UNCHANGED varsA

\* main: an input without lines is an error
CheckEmpty ==
    /\ pcB = "empty"
    /\ IF Len(lines) = 0
       THEN Exit1(<<"Error: Input file is empty">>)
       ELSE /\ pcB' = "split"
            /\ UNCHANGED <<printed, exitCode>>
    /\ UNCHANGED <<argv, args, n_files, rawText, lines, parts, start_idx,
                   outDirs, outFiles>>
    /\ UNCHANGED varsA

\* main: one iteration of the split loop, or its exit
SplitPart ==
    /\ pcB = "split"
    /\ LET header == lines[1]
           data_lines == Tail(lines)
           lines_per_part == Len(data_lines) \div n_files
           remainder == Len(data_lines) % n_files
           i == Len(parts)
       IN  IF i < n_files
           THEN LET part_size == PartSize(i, lines_per_part, remainder, n_files)
                    end_idx == start_idx + part_size
                IN  /\ parts' = Append(parts,
                                       <<header>> \o ListSlice(data_lines, start_idx, end_idx))
                    /\ start_idx' = end_idx
                    /\ pcB' = pcB
           ELSE /\ pcB' = "write"
                /\ UNCHANGED <<parts, start_idx>>
    /\ UNCHANGED <<argv, args, n_files, rawText, lines, outDirs, outFiles,
                   printed, exitCode>>
    /\ UNCHANGED varsA

\* main: one iteration of the write loop (makedirs, then the part written in
\* text mode), or its exit
WritePart ==
    /\ pcB = "write"
    /\ LET i == Cardinality(DOMAIN outFiles) + 1
       IN  IF i <= Len(parts)
           THEN LET output_file ==
                        PartName(args["output_path"], args["input_file"], i)
                IN  /\ outDirs' = outDirs \cup {output_file.dir}
                    /\ outFiles' = (output_file :> Flatten(parts[i])) @@ outFiles
                    /\ pcB' = pcB
           ELSE /\ pcB' = "summary"
                /\ UNCHANGED <<outDirs, outFiles>>
    /\ UNCHANGED <<argv, args, n_files, rawText, lines, parts, start_idx,
                   printed, exitCode>>
    /\ UNCHANGED varsA

\* main: the summary; whether a compressed part exceeds 100MB is the file
\* system's answer
SummaryB ==
    /\ pcB = "summary"
    /\ Len(parts) > 0
    /\ \E over \in BOOLEAN :
          printed' = printed \o
              <<IF over THEN "Warning: One or more parts exceed 100MB!"
                        ELSE "Success: All parts are under 100MB!",
                "Done!">>
    /\ exitCode' = 0
    /\ pcB' = "done"
    /\ UNCHANGED <<argv, args, n_files, rawText, lines, parts, start_idx,
                   outDirs, outFiles>>
    /\ UNCHANGED varsA

InitB == AIdle /\ BStart

NextB ==
    \/ ParseArguments
    \/ CheckRequired
    \/ ConvertNFiles
    \/ CheckExists
    \/ ReadInput
    \/ CheckEmpty
    \/ SplitPart
    \/ WritePart
    \/ SummaryB

SpecB == InitB /\ [][NextB]_vars

----------------------------------------------------------------------------
(* Properties of Pipeline A, checked under SpecA *)

Sharded == pc \in {"summary", "done"}

TotalRows == Len(df)

\* the rows of shard k (1-based) as stored in its file
ShardRows(k) == parquet[FileName(OUTPUT_PREFIX, "shard", Pad2(k), "parquet")]

ExpectedShardNames ==
    {FileName(OUTPUT_PREFIX, "shard", Pad2(k), "parquet") : k \in 1..num_shards}

AllShardIds ==
    Flatten([k \in 1..num_shards |-> [i \in DOMAIN ShardRows(k) |-> ShardRows(k)[i].id]])

RECURSIVE RowsIn(_)
RowsIn(S) ==
    IF S = {} THEN 0
    ELSE LET k == CHOOSE x \in S : TRUE
         IN  Len(ShardRows(k)) + RowsIn(S \ {k})

\* C1: once all shards are written, every input row index 0..R-1 appears in
\* exactly one shard and exactly once, and every row of a shard is the input
\* row of that index.
C1_ShardsPartitionRows ==
    Sharded =>
        /\ Len(AllShardIds) = TotalRows
        /\ Range(AllShardIds) = 0..(TotalRows - 1)
        /\ \A k \in 1..num_shards : \A i \in DOMAIN ShardRows(k) :
              /\ ShardRows(k)[i].id \in 0..(TotalRows - 1)
              /\ ShardRows(k)[i] = df[ShardRows(k)[i].id + 1]

C1_Witness ==
    /\ pc = "done"
    /\ num_shards = 2
    /\ TotalRows = 3
    /\ AllShardIds # <<0, 1, 2>>

\* C2: shuffle_and_shard never stops short of returning, and it leaves N
\* shards, shards 1..N-1 of R // N rows and shard N of R // N + R % N rows,
\* also when R < N.
C2_ShardSizes ==
    /\ pc \in {"shuffle", "shard", "summary"} => ENABLED NextA
    /\ Sharded =>
          /\ Len(shard_files) = num_shards
          /\ ExpectedShardNames \subseteq DOMAIN parquet
          /\ \A k \in 1..num_shards :
                Len(ShardRows(k)) =
                    IF k < num_shards
                    THEN TotalRows \div num_shards
                    ELSE (TotalRows \div num_shards) + (TotalRows % num_shards)

C2_Witness ==
    /\ pc = "done"
    /\ num_shards = 3
    /\ TotalRows = 2
    /\ Len(ShardRows(1)) = 0
    /\ Len(ShardRows(3)) = 2

\* C7: a later run on the same input with the same seed and num_shards puts
\* every row in the same shard at the same position as the run before it,
\* whatever state the generator was in when the run began.
C7_SameAssignment ==
    (Sharded /\ run >= 2) => Assignment = prevAssign

C7_Witness ==
    /\ pc = "done"
    /\ run = 2
    /\ TotalRows = 3
    /\ num_shards = 2
    /\ prevAssign # <<<<0>>, <<1, 2>>>>
    /\ Assignment = prevAssign

\* C8 as stated: any two subsets of k shards hold the same number of rows,
\* k/N of the R rows.
C8_SubsetsProportional ==
    pc = "done" =>
        \A S \in SUBSET (1..num_shards) :
            RowsIn(S) * num_shards = Cardinality(S) * TotalRows

\* C8 as amended: a subset of k shards holds k * (R // N) rows, plus the
\* R % N remainder rows when it includes the last shard; so subsets of k
\* shards hold k/N of the R rows each when N divides R.
C8_SubsetsUpToRemainder ==
    pc = "done" =>
        /\ \A S \in SUBSET (1..num_shards) :
              RowsIn(S) = Cardinality(S) * (TotalRows \div num_shards)
                          + (IF num_shards \in S THEN (TotalRows % num_shards) ELSE 0)
        /\ TotalRows % num_shards = 0 =>
              \A S \in SUBSET (1..num_shards) :
                  RowsIn(S) * num_shards = Cardinality(S) * TotalRows

C8_Witness ==
    /\ pc = "done"
    /\ num_shards = 3
    /\ TotalRows = 2
    /\ RowsIn({1, 2}) = 0
    /\ RowsIn({2, 3}) = 2

\* C9: after optimize_dtypes every TimeRank cell holds the value the source
\* held.
C9_TimeRankPreserved ==
    pc \in {"remove_old", "shuffle", "shard", "summary", "done"} =>
        \A i \in DOMAIN df : df[i].TimeRank = Flatten(srcFiles)[i]

\* C10: nothing is deleted or written until loading has succeeded, and
\* nothing at all when it fails; every old .parquet file is gone before the
\* first shard is written; while shards are written the .parquet files are
\* the shards written so far; after the run they are exactly shard01 ..
\* shardNN, N distinct names.
C10_LoadDeleteWrite ==
    /\ pc \in {"load", "optimize", "remove_old", "failed"} =>
          DOMAIN parquet = preexisting
    /\ pc = "failed" => srcFiles = <<>>
    /\ pc = "shuffle" => DOMAIN parquet = {}
    /\ pc = "shard" =>
          DOMAIN parquet =
              {FileName(OUTPUT_PREFIX, "shard", Pad2(k), "parquet") : k \in 1..shard_idx}
    /\ Sharded =>
          /\ DOMAIN parquet = ExpectedShardNames
          /\ Cardinality(DOMAIN parquet) = num_shards

C10_Witness ==
    /\ pc = "done"
    /\ run = 1
    /\ num_shards = 2
    /\ preexisting = StaleNames

----------------------------------------------------------------------------
(* Properties of Pipeline B, checked under SpecB *)

Split == pcB \in {"write", "summary", "done"}

DataLines == Tail(lines)

\* a line without its terminator
LineBody(l) ==
    IF l # <<>> /\ l[Len(l)] = "\n"
    THEN IF Len(l) >= 2 /\ l[Len(l) - 1] = "\r"
         THEN SubSeq(l, 1, Len(l) - 2) ELSE SubSeq(l, 1, Len(l) - 1)
    ELSE IF l # <<>> /\ l[Len(l)] = "\r" THEN SubSeq(l, 1, Len(l) - 1)
    ELSE l

Bodies(ls) == [i \in DOMAIN ls |-> LineBody(ls[i])]

\* C3: the split loop builds exactly N parts; with D data lines the first
\* D % N parts have D // N + 1 of them and the others D // N; every part,
\* also one without data lines, starts with the header.
C3_PartSizesAndHeader ==
    Split =>
        LET D == Len(lines) - 1
        IN  /\ Len(parts) = n_files
            /\ \A i \in 1..n_files :
                  /\ Len(parts[i]) - 1 =
                        (D \div n_files) + (IF i <= D % n_files THEN 1 ELSE 0)
                  /\ parts[i][1] = lines[1]
                  /\ LineBody(parts[i][1]) = LineBody(SplitLines(rawText)[1])
            /\ pcB = "done" => Cardinality(DOMAIN outFiles) = n_files

C3_Witness ==
    /\ pcB = "done"
    /\ n_files = 3
    /\ Len(lines) = 5
    /\ Len(parts[1]) = 3
    /\ Len(parts[2]) = 2

\* C4: the data lines of the parts, concatenated in part order, are the data
\* lines read from the input: the same lines in the same order.
C4_PartsReconstructData ==
    Split =>
        LET joined == Flatten([i \in 1..Len(parts) |-> Tail(parts[i])])
        IN  /\ joined = DataLines
            /\ Bodies(joined) = Bodies(Tail(SplitLines(rawText)))

C4_Witness ==
    /\ pcB = "done"
    /\ n_files = 2
    /\ Len(lines) = 4
    /\ lines[2] # lines[3]
    /\ lines[3] # lines[4]
    /\ ~EndsWithNewline(rawText)

Terminated == pcB \in {"exited", "crashed", "done"}

\* the cases of C5, told from the command line and the file system alone
ArgGiven(key) ==
    \E i \in DOMAIN argv : argv[i].eq /\ argv[i].key = key /\ argv[i].value # <<>>

ArgValue(key) ==
    argv[CHOOSE i \in DOMAIN argv : argv[i].eq /\ argv[i].key = key].value

ArgMissing == ~ArgGiven("input_file") \/ ~ArgGiven("output_path") \/ ~ArgGiven("n_files")

PositiveNumeral(s) ==
    LET body == IF s # <<>> /\ Head(s) = "+" THEN Tail(s) ELSE s
    IN  /\ body # <<>>
        /\ \A i \in DOMAIN body : IsDigit(body[i])
        /\ \E i \in DOMAIN body : body[i] # "0"

BadCount == ~ArgMissing /\ ~PositiveNumeral(ArgValue("n_files"))

NoInput == ~ArgMissing /\ ~BadCount /\ ArgValue("input_file") \notin ExistingPaths

EmptyInput ==
    ~ArgMissing /\ ~BadCount /\ ~NoInput /\ pcB # "crashed" /\ rawText = <<>>

ErrorCase == ArgMissing \/ BadCount \/ NoInput \/ EmptyInput

UsagePrinted == Usage \in Range(printed)

ErrorPrinted ==
    \E i \in DOMAIN printed : SubSeq(printed, i, i) \in
        {<<"Error: input_file is required">>, <<"Error: output_path is required">>,
         <<"Error: n_files is required">>,
         <<"Error: n_files must be a positive integer">>,
         <<"Error: Input file does not exist">>, <<"Error: Input file is empty">>}

\* C5 as stated: in each error case the run exits with code 1 and prints the
\* usage message; a run that reaches the end exits with code 0.
C5_ExitOneWithUsage ==
    Terminated =>
        /\ ErrorCase => exitCode = 1 /\ UsagePrinted
        /\ pcB = "done" => exitCode = 0 /\ ~ErrorCase

\* C5 as amended: in each error case the run exits with code 1 and prints an
\* error message, and the usage message only when input_file, output_path or
\* n_files is missing; a run that reaches the end exits with code 0.
C5_ExitOneWithError ==
    Terminated =>
        /\ ErrorCase => exitCode = 1 /\ ErrorPrinted /\ pcB = "exited"
        /\ ErrorCase => (UsagePrinted <=> ArgMissing)
        /\ pcB = "done" => exitCode = 0 /\ ~ErrorCase
        /\ pcB = "exited" => ErrorCase

C5_Witness ==
    /\ pcB = "exited"
    /\ BadCount
    /\ ArgValue("n_files") = <<"0">>
    /\ ~UsagePrinted

\* C6: a run that exits with code 1 has created no output file and no output
\* directory, and on an empty input the run exits with code 1 after printing
\* "Input file is empty".
C6_NoOutputOnExitOne ==
    /\ exitCode = 1 => outFiles = <<>> /\ outDirs = {}
    /\ (Terminated /\ EmptyInput) =>
          /\ exitCode = 1
          /\ "Error: Input file is empty" \in Range(printed)

C6_Witness ==
    /\ pcB = "exited"
    /\ EmptyInput
    /\ exitCode = 1
    /\ outFiles = <<>>

=============================================================================
